---- MODULE Spec2Model ----
(***************************************************************************)
(* Model of the two saved-queue tools:                                     *)
(*   reframe_queue_and_prefixes.py  (rewrite_prefix ... process_saved_queue)*)
(*   reseed_queue.py                (iter_queue_items ... reseed_document)  *)
(*                                                                         *)
(* JSON values are tagged records: [t |-> "str", s |-> <<chars>>],         *)
(* [t |-> "int", v |-> n], [t |-> "float", v |-> trunc], [t |-> "null"],   *)
(* [t |-> "list", elems |-> <<...>>], dicts carry their known keys, and a  *)
(* missing key is the value Absent.  A Python str is a sequence of         *)
(* one-character strings, so that the regular expression of rewrite_prefix *)
(* is computed character by character.                                     *)
(***************************************************************************)
EXTENDS Integers, Sequences, FiniteSets, TLC

VARIABLES
    doc,            \* the in-memory document the tools mutate in place
    doc0,           \* the document as it was handed to the latest call
    status,         \* "idle" | "returned" | "raised" : how the latest call ended
    calls,          \* number of calls made so far
    args,           \* arguments of the latest call
    nodes_touched,  \* reseed_document's first counter
    seeds_changed,  \* reseed_document's second counter
    prefix,         \* value handed through rewrite_prefix
    prefix0         \* the value rewrite_prefix received in the latest call

vars == <<doc, doc0, status, calls, args, nodes_touched, seeds_changed, prefix, prefix0>>

(***************************************************************************)
(* Bounds of the model.                                                    *)
(***************************************************************************)
MaxCalls == 2
MaxTokens == 5
MaxJobs == 2

(***************************************************************************)
(* JSON values.                                                            *)
(***************************************************************************)
Absent == [t |-> "absent"]
Null == [t |-> "null"]
JInt(n) == [t |-> "int", v |-> n]
JStr(s) == [t |-> "str", s |-> s]
JList(es) == [t |-> "list", elems |-> es]

(***************************************************************************)
(* Python str formatting of an int: f'{frames}'.                           *)
(***************************************************************************)
Digits == {"0", "1", "2", "3", "4", "5", "6", "7", "8", "9"}

DigitChar(d) == <<"0", "1", "2", "3", "4", "5", "6", "7", "8", "9">>[d + 1]

RECURSIVE NatToStr(_)
NatToStr(n) ==
    IF n < 10 THEN <<DigitChar(n)>>
    ELSE NatToStr(n \div 10) \o <<DigitChar(n % 10)>>

IntToStr(n) == IF n < 0 THEN <<"-">> \o NatToStr(-n) ELSE NatToStr(n)

\* The replacement f'-{frames}f'.
FrameSegment(frames) == <<"-">> \o IntToStr(frames) \o <<"f">>

(***************************************************************************)
(* re.sub(r'-(\d+)f(?=(\d+steps)?$)', repl, prefix), position by position. *)
(***************************************************************************)
StepsWord == <<"s", "t", "e", "p", "s">>

\* First index k >= i that is past the end of s or holds no digit: the end
\* of the greedy \d+ run starting at i.
RECURSIVE DigitsEnd(_, _)
DigitsEnd(s, i) ==
    IF i > Len(s) THEN i
    ELSE IF s[i] \in Digits THEN DigitsEnd(s, i + 1) ELSE i

\* '$' without re.MULTILINE: at the end of the string, or just before a
\* newline that is the last character.
AtEnd(s, i) == \/ i = Len(s) + 1
               \/ (i = Len(s) /\ s[i] = "\n")

\* The lookahead (?=(\d+steps)?$) at position i.
LookAhead(s, i) ==
    LET k == DigitsEnd(s, i) IN
    \/ /\ k > i
       /\ k + 4 <= Len(s)
       /\ SubSeq(s, k, k + 4) = StepsWord
       /\ AtEnd(s, k + 5)
    \/ AtEnd(s, i)

\* The index just after a match of -(\d+)f that starts at i, 0 if none.
MatchEnd(s, i) ==
    IF s[i] # "-" THEN 0
    ELSE LET k == DigitsEnd(s, i + 1) IN
         IF k > i + 1 /\ k <= Len(s) /\ s[k] = "f" /\ LookAhead(s, k + 1)
         THEN k + 1 ELSE 0

\* re.sub: every non-overlapping match, leftmost first, replaced by repl.
RECURSIVE ReSub(_, _, _)
ReSub(s, i, repl) ==
    IF i > Len(s) THEN <<>>
    ELSE LET e == MatchEnd(s, i) IN
         IF e > 0 THEN repl \o ReSub(s, e, repl)
         ELSE <<s[i]>> \o ReSub(s, i + 1, repl)

\* Lines 11-14: append a segment when re.sub changed nothing.
AppendIfUnchanged(new, old, frames) ==
    IF new = old THEN JStr(old \o FrameSegment(frames)) ELSE JStr(new)

rewrite_prefix(p, frames) ==
    IF p.t # "str" THEN p
    ELSE AppendIfUnchanged(ReSub(p.s, 1, FrameSegment(frames)), p.s, frames)

(***************************************************************************)
(* Inputs of rewrite_prefix: concatenations of at most MaxTokens tokens,   *)
(* the literal cases of the documentation, and a value that is no str.     *)
(***************************************************************************)
Tokens == {<<"c">>, <<"-">>, <<"8">>, <<"1", "4", "5">>, <<"f">>, StepsWord, <<"\n">>}

RECURSIVE TokenStrings(_)
TokenStrings(n) ==
    IF n = 0 THEN {<<>>}
    ELSE LET prev == TokenStrings(n - 1) IN
         prev \cup {p \o tk : p \in prev, tk \in Tokens}

Clip == <<"c", "l", "i", "p">>
Clip81f == Clip \o <<"-", "8", "1", "f">>
Clip81f24steps == Clip81f \o <<"2", "4">> \o StepsWord
Clip145f == Clip \o <<"-", "1", "4", "5", "f">>
Clip145f24steps == Clip145f \o <<"2", "4">> \o StepsWord

PrefixInputs ==
    {JStr(s) : s \in TokenStrings(MaxTokens)
                     \cup {Clip, Clip81f, Clip81f24steps, Clip145f, Clip145f24steps}}
    \cup {JInt(81), Null}

Frames == {145, 8, 0}

(***************************************************************************)
(* Dicts.  A Node-Map (the graph at index 2 of a job, or a job that is a   *)
(* bare mapping) is the sequence of its values in iteration order; the     *)
(* other dicts carry the keys the tools read.  NoKey is what .get() gives  *)
(* for a discriminator key that is missing.                                *)
(***************************************************************************)
NoKey == "<none>"
NodeMap(nodes) == [t |-> "dict", nodes |-> nodes]
Node(ct, ins) == [t |-> "dict", class_type |-> ct, inputs |-> ins]
Inputs(seed, length, fp) ==
    [t |-> "dict", seed |-> seed, length |-> length, filename_prefix |-> fp]
EmptyInputs == Inputs(Absent, Absent, Absent)
UINode(ty, wv) == [t |-> "dict", type |-> ty, widgets_values |-> wv]
Workflow(nodes) == [t |-> "dict", nodes |-> nodes]
PngInfo(wf) == [t |-> "dict", workflow |-> wf]
Meta(ep) == [t |-> "dict", extra_pnginfo |-> ep]

SizingType == "EmptyHunyuanLatentVideo"
SaveTypes == {"SaveVideo", "SaveImage"}

\* The outcome of a step that mutates a value in place and may raise: the
\* value as the step left it, and whether an exception is propagating.
Done(x) == [val |-> x, raised |-> FALSE]
Raised(x) == [val |-> x, raised |-> TRUE]

(***************************************************************************)
(* reframe_queue_and_prefixes.py                                           *)
(***************************************************************************)
\* node.setdefault("inputs", {})
SetDefaultInputs(node) ==
    IF node.inputs = Absent THEN [node EXCEPT !.inputs = EmptyInputs] ELSE node

\* Line 21: inputs["length"] = int(frames); item assignment on an inputs
\* value that is no dict raises TypeError.
SetLength(node, frames) ==
    IF node.inputs.t = "dict"
    THEN Done([node EXCEPT !.inputs.length = JInt(frames)])
    ELSE Raised(node)

\* Lines 19-21.
FixLength(node, frames) ==
    IF node.class_type # SizingType THEN Done(node)
    ELSE SetLength(SetDefaultInputs(node), frames)

\* Lines 26-27: "filename_prefix" in inputs raises TypeError on None and is
\* False on an empty list.
SetFilenamePrefix(node, frames) ==
    CASE node.inputs.t = "dict" ->
           IF node.inputs.filename_prefix = Absent THEN Done(node)
           ELSE Done([node EXCEPT !.inputs.filename_prefix =
                        rewrite_prefix(node.inputs.filename_prefix, frames)])
      [] node.inputs.t = "null" -> Raised(node)
      [] OTHER -> Done(node)

\* Lines 24-27.
FixFilenamePrefix(node, frames) ==
    IF node.class_type \notin SaveTypes THEN Done(node)
    ELSE SetFilenamePrefix(SetDefaultInputs(node), frames)

ThenFixFilenamePrefix(r, frames) ==
    IF r.raised THEN r ELSE FixFilenamePrefix(r.val, frames)

\* One iteration of "for node in graph_dict.values()"; node.get on a value
\* that is no dict raises AttributeError.
FixGraphNode(node, frames) ==
    IF node.t # "dict" THEN Raised(node)
    ELSE ThenFixFilenamePrefix(FixLength(node, frames), frames)

RECURSIVE FixGraphFrom(_, _, _)
\* The node is mutated in place; an exception leaves the loop.
GraphLoopNext(r, nodes, i, frames) ==
    IF r.raised THEN Raised([nodes EXCEPT ![i] = r.val])
    ELSE FixGraphFrom([nodes EXCEPT ![i] = r.val], i + 1, frames)

FixGraphFrom(nodes, i, frames) ==
    IF i > Len(nodes) THEN Done(nodes)
    ELSE GraphLoopNext(FixGraphNode(nodes[i], frames), nodes, i, frames)

InNodes(r, mapping) ==
    [val |-> [mapping EXCEPT !.nodes = r.val], raised |-> r.raised]

fix_graph_nodes(graph_dict, frames) ==
    InNodes(FixGraphFrom(graph_dict.nodes, 1, frames), graph_dict)

\* Mutant of FixWidgetLength: the length is written one widget too far.
FixWidgetLengthOffByOne(n, frames) ==
    IF /\ n.type = SizingType
       /\ n.widgets_values.t = "list"
       /\ Len(n.widgets_values.elems) >= 4
    THEN [n EXCEPT !.widgets_values.elems[4] = JInt(frames)]
    ELSE n

\* Lines 46-47: wv[2] = int(frames) for the sizing type with >= 3 widgets.
FixWidgetLength(n, frames) ==
    IF /\ n.type = SizingType
       /\ n.widgets_values.t = "list"
       /\ Len(n.widgets_values.elems) >= 3
    THEN [n EXCEPT !.widgets_values.elems[3] = JInt(frames)]
    ELSE n

\* Lines 49-51: wv[0] = rewrite_prefix(wv[0], frames) when it is a str.
FixWidgetPrefix(n, frames) ==
    IF /\ n.type \in SaveTypes
       /\ n.widgets_values.t = "list"
       /\ Len(n.widgets_values.elems) >= 1
       /\ n.widgets_values.elems[1].t = "str"
    THEN [n EXCEPT !.widgets_values.elems[1] =
              rewrite_prefix(n.widgets_values.elems[1], frames)]
    ELSE n

\* One iteration of "for n in nodes"; n.get on a value that is no dict raises.
FixWorkflowNode(n, frames) ==
    IF n.t # "dict" THEN Raised(n)
    ELSE Done(FixWidgetPrefix(FixWidgetLength(n, frames), frames))

RECURSIVE FixWorkflowFrom(_, _, _)
WorkflowLoopNext(r, nodes, i, frames) ==
    IF r.raised THEN Raised([nodes EXCEPT ![i] = r.val])
    ELSE FixWorkflowFrom([nodes EXCEPT ![i] = r.val], i + 1, frames)

FixWorkflowFrom(nodes, i, frames) ==
    IF i > Len(nodes) THEN Done(nodes)
    ELSE WorkflowLoopNext(FixWorkflowNode(nodes[i], frames), nodes, i, frames)

InWorkflowNodes(r, meta) ==
    [val |-> [meta EXCEPT !.extra_pnginfo.workflow.nodes.elems = r.val],
     raised |-> r.raised]

\* meta.get("extra_pnginfo", {}).get("workflow") raises AttributeError when
\* extra_pnginfo is present and no dict.
fix_workflow_nodes(meta, frames) ==
    CASE meta.extra_pnginfo = Absent -> Done(meta)
      [] meta.extra_pnginfo.t # "dict" -> Raised(meta)
      [] OTHER ->
           IF meta.extra_pnginfo.workflow.t # "dict" THEN Done(meta)
           ELSE IF meta.extra_pnginfo.workflow.nodes.t # "list" THEN Done(meta)
           ELSE InWorkflowNodes(
                    FixWorkflowFrom(meta.extra_pnginfo.workflow.nodes.elems, 1, frames),
                    meta)

InElem(r, job_entry, k) ==
    [val |-> [job_entry EXCEPT !.elems[k] = r.val], raised |-> r.raised]

\* Lines 61-62: the graph dict at Python index 2, which is elems[3].
FixJobGraph(job_entry, frames) ==
    IF Len(job_entry.elems) >= 3 /\ job_entry.elems[3].t = "dict"
    THEN InElem(fix_graph_nodes(job_entry.elems[3], frames), job_entry, 3)
    ELSE Done(job_entry)

\* Lines 64-65: the meta dict at Python index 3, which is elems[4].
FixJobMeta(job_entry, frames) ==
    IF Len(job_entry.elems) >= 4 /\ job_entry.elems[4].t = "dict"
    THEN InElem(fix_workflow_nodes(job_entry.elems[4], frames), job_entry, 4)
    ELSE Done(job_entry)

ThenFixJobMeta(r, frames) == IF r.raised THEN r ELSE FixJobMeta(r.val, frames)

\* Mutant of fix_job_entry: the job shapes of iter_queue_items, so that a
\* job without a graph mapping is skipped whole.
FixJobEntryGraphFirst(job_entry, frames) ==
    IF job_entry.t # "list" THEN Done(job_entry)
    ELSE IF ~(Len(job_entry.elems) >= 3 /\ job_entry.elems[3].t = "dict")
    THEN Done(job_entry)
    ELSE ThenFixJobMeta(FixJobGraph(job_entry, frames), frames)

fix_job_entry(job_entry, frames) ==
    IF job_entry.t # "list" THEN Done(job_entry)
    ELSE ThenFixJobMeta(FixJobGraph(job_entry, frames), frames)

RECURSIVE FixJobsFrom(_, _, _)
JobLoopNext(r, arr, i, frames) ==
    IF r.raised THEN Raised([arr EXCEPT ![i] = r.val])
    ELSE FixJobsFrom([arr EXCEPT ![i] = r.val], i + 1, frames)

\* Lines 72-73.
FixJobsFrom(arr, i, frames) ==
    IF i > Len(arr) THEN Done(arr)
    ELSE JobLoopNext(fix_job_entry(arr[i], frames), arr, i, frames)

RewriteSections == <<"queue_running", "queue_pending", "queue_failed">>

InSection(r, data, key) ==
    [val |-> [data EXCEPT ![key].elems = r.val], raised |-> r.raised]

\* Lines 70-73: one iteration of "for key in (...)".
FixSection(data, key, frames) ==
    IF data[key].t # "list" THEN Done(data)
    ELSE InSection(FixJobsFrom(data[key].elems, 1, frames), data, key)

RECURSIVE FixSectionsFrom(_, _, _)
SectionLoopNext(r, k, frames) ==
    IF r.raised THEN r ELSE FixSectionsFrom(r.val, k + 1, frames)

FixSectionsFrom(data, k, frames) ==
    IF k > Len(RewriteSections) THEN Done(data)
    ELSE SectionLoopNext(FixSection(data, RewriteSections[k], frames), k, frames)

process_saved_queue(data, frames) == FixSectionsFrom(data, 1, frames)

(***************************************************************************)
(* reseed_queue.py                                                         *)
(***************************************************************************)
KSAMPLER_CLASSES ==
    {"KSampler", "KSamplerAdvanced", "KSampler (Efficient)", "KSamplerSDXL",
     "KSamplerTiled", "SamplerCustom"}

DefaultSections == <<"queue_running", "queue_pending">>

JFloat(whole, frac) == [t |-> "float", whole |-> whole, frac |-> frac]

DigitValue(c) == CHOOSE d \in 0..9 : DigitChar(d) = c

RECURSIVE DigitsToNat(_, _)
DigitsToNat(s, acc) ==
    IF s = <<>> THEN acc ELSE DigitsToNat(Tail(s), 10 * acc + DigitValue(Head(s)))

AllDigits(s) == s # <<>> /\ \A i \in 1..Len(s) : s[i] \in Digits

\* int(x) of find_seed_fields: ok is FALSE where Python raises (caught by
\* "except Exception").  int() of a float truncates; int() of a str parses an
\* optional sign and decimal digits.
IntOf(x) ==
    CASE x.t = "int" -> [ok |-> TRUE, val |-> x.v]
      [] x.t = "float" -> [ok |-> TRUE, val |-> x.whole]
      [] x.t = "str" ->
           IF AllDigits(x.s) THEN [ok |-> TRUE, val |-> DigitsToNat(x.s, 0)]
           ELSE IF x.s # <<>> /\ Head(x.s) = "-" /\ AllDigits(Tail(x.s))
                THEN [ok |-> TRUE, val |-> -DigitsToNat(Tail(x.s), 0)]
           ELSE IF x.s # <<>> /\ Head(x.s) = "+" /\ AllDigits(Tail(x.s))
                THEN [ok |-> TRUE, val |-> DigitsToNat(Tail(x.s), 0)]
           ELSE [ok |-> FALSE, val |-> 0]
      [] OTHER -> [ok |-> FALSE, val |-> 0]

SeedPath == <<"inputs", "seed">>

\* Lines 53-57: the try block around int(ins["seed"]).
SeedField(coerced) ==
    IF coerced.ok THEN <<[path |-> SeedPath, cur |-> coerced.val]>> ELSE <<>>

\* Lines 51-57, on the value of node.get("inputs", {}).
SeedFieldsOfInputs(ins) ==
    IF ins.t = "dict" /\ ins.seed # Absent THEN SeedField(IntOf(ins.seed)) ELSE <<>>

\* Mutant of find_seed_fields: the class_type is not looked at.
FindSeedFieldsAnyClass(node) ==
    SeedFieldsOfInputs(IF node.inputs = Absent THEN EmptyInputs ELSE node.inputs)

\* The list of (path, current_seed_int) of a node: empty or one entry.
find_seed_fields(node) ==
    IF node.class_type \in KSAMPLER_CLASSES
    THEN SeedFieldsOfInputs(IF node.inputs = Absent THEN EmptyInputs ELSE node.inputs)
    ELSE <<>>

\* apply_seed for the only path find_seed_fields produces.
apply_seed(node, path, new_seed) ==
    IF path = SeedPath /\ node.inputs.t = "dict" /\ node.inputs.seed # Absent
    THEN [node EXCEPT !.inputs.seed = JInt(new_seed)]
    ELSE node

\* Lines 76-78: the local state of reseed_document as the loop starts.
InitState(a) ==
    [seq_val |-> a.start, job_seed |-> a.start, nodes_touched |-> 0,
     seeds_changed |-> 0, drawn |-> 0]

\* Mutant of next_seq: the per-job counter is never used.
NextSeqGlobalOnly(st, a) ==
    [v |-> st.seq_val, st |-> [st EXCEPT !.seq_val = st.seq_val + a.step]]

\* next_seq(): the value handed out and the state after it.
next_seq(st, a) ==
    IF a.scope = "job"
    THEN [v |-> st.job_seed, st |-> [st EXCEPT !.job_seed = st.job_seed + a.step]]
    ELSE [v |-> st.seq_val, st |-> [st EXCEPT !.seq_val = st.seq_val + a.step]]

\* rnd.randint(0, 2_147_483_647): the next draw of the call's generator.
RandInt(st, a) ==
    [v |-> a.rnd[st.drawn + 1], st |-> [st EXCEPT !.drawn = st.drawn + 1]]

\* Mutant of WriteSeed: every field met is written and counted.
WriteSeedAlways(node, field, new_seed, st) ==
    [val |-> apply_seed(node, field.path, new_seed),
     st |-> [st EXCEPT !.seeds_changed = st.seeds_changed + 1],
     raised |-> FALSE]

\* Lines 107-109: overwrite only when the new value differs.
WriteSeed(node, field, new_seed, st) ==
    IF new_seed # field.cur
    THEN [val |-> apply_seed(node, field.path, new_seed),
          st |-> [st EXCEPT !.seeds_changed = st.seeds_changed + 1],
          raised |-> FALSE]
    ELSE [val |-> node, st |-> st, raised |-> FALSE]

WriteDrawn(d, node, field) == WriteSeed(node, field, d.v, d.st)

\* Mutant of ReseedField: increment adds step to the seed the field holds.
ReseedFieldBump(node, field, st, a) ==
    CASE a.mode = "random" -> WriteDrawn(RandInt(st, a), node, field)
      [] a.mode = "increment" -> WriteSeed(node, field, field.cur + a.step, st)
      [] OTHER -> [val |-> node, st |-> st, raised |-> TRUE]

\* Lines 101-109 for one field.
ReseedField(node, field, st, a) ==
    CASE a.mode = "random" -> WriteDrawn(RandInt(st, a), node, field)
      [] a.mode = "increment" -> WriteDrawn(next_seq(st, a), node, field)
      [] OTHER -> [val |-> node, st |-> st, raised |-> TRUE]

\* Lines 97-100.
ReseedFields(fields, node, st, a) ==
    IF fields = <<>> THEN [val |-> node, st |-> st, raised |-> FALSE]
    ELSE ReseedField(node, fields[1],
                     [st EXCEPT !.nodes_touched = st.nodes_touched + 1], a)

\* Lines 96-109: the body of "for nid, node in iter_nodes_from_item(item)".
ReseedNode(node, st, a) == ReseedFields(find_seed_fields(node), node, st, a)

RECURSIVE ReseedNodesFrom(_, _, _, _)
NodeLoopNext(r, nodes, i, a) ==
    IF r.raised
    THEN [val |-> [nodes EXCEPT ![i] = r.val], st |-> r.st, raised |-> TRUE]
    ELSE ReseedNodesFrom([nodes EXCEPT ![i] = r.val], i + 1, r.st, a)

\* iter_nodes_from_item skips the values that are no dict.
ReseedNodesFrom(nodes, i, st, a) ==
    IF i > Len(nodes) THEN [val |-> nodes, st |-> st, raised |-> FALSE]
    ELSE IF nodes[i].t # "dict" THEN ReseedNodesFrom(nodes, i + 1, st, a)
    ELSE NodeLoopNext(ReseedNode(nodes[i], st, a), nodes, i, a)

\* The shape test shared by iter_queue_items and iter_nodes_from_item.
IsListJob(item) ==
    item.t = "list" /\ Len(item.elems) >= 3 /\ item.elems[3].t = "dict"

InGraph(r, item) ==
    [val |-> [item EXCEPT !.elems[3].nodes = r.val], st |-> r.st, raised |-> r.raised]

InItem(r, item) ==
    [val |-> [item EXCEPT !.nodes = r.val], st |-> r.st, raised |-> r.raised]

\* iter_nodes_from_item: the Node-Map at index 2, else the item itself.
ReseedItemNodes(item, st, a) ==
    IF IsListJob(item)
    THEN InGraph(ReseedNodesFrom(item.elems[3].nodes, 1, st, a), item)
    ELSE InItem(ReseedNodesFrom(item.nodes, 1, st, a), item)

\* One iteration of the loop of line 82: job_seed = start, then the nodes.
ReseedItem(item, st, a) ==
    ReseedItemNodes(item, [st EXCEPT !.job_seed = a.start], a)

\* iter_queue_items yields the list-shaped jobs and the bare mappings.
Yielded(item) == IsListJob(item) \/ item.t = "dict"

RECURSIVE ReseedItemsFrom(_, _, _, _)
ItemLoopNext(r, items, i, a) ==
    IF r.raised
    THEN [val |-> [items EXCEPT ![i] = r.val], st |-> r.st, raised |-> TRUE]
    ELSE ReseedItemsFrom([items EXCEPT ![i] = r.val], i + 1, r.st, a)

ReseedItemsFrom(items, i, st, a) ==
    IF i > Len(items) THEN [val |-> items, st |-> st, raised |-> FALSE]
    ELSE IF ~Yielded(items[i]) THEN ReseedItemsFrom(items, i + 1, st, a)
    ELSE ItemLoopNext(ReseedItem(items[i], st, a), items, i, a)

\* doc.get(section, [])
DocGet(d, section) == IF section \in DOMAIN d THEN d[section] ELSE Absent

InDocSection(r, d, section) ==
    [val |-> [d EXCEPT ![section].elems = r.val], st |-> r.st, raised |-> r.raised]

\* One iteration of "for section in which" of iter_queue_items.
ReseedSection(d, section, st, a) ==
    IF DocGet(d, section).t # "list" THEN [val |-> d, st |-> st, raised |-> FALSE]
    ELSE InDocSection(ReseedItemsFrom(d[section].elems, 1, st, a), d, section)

\* Line 80.
valid_sections(a) ==
    IF a.only_sections = <<>> THEN DefaultSections ELSE a.only_sections

RECURSIVE ReseedSectionsFrom(_, _, _, _)
DocLoopNext(r, k, a) ==
    IF r.raised THEN r ELSE ReseedSectionsFrom(r.val, k + 1, r.st, a)

ReseedSectionsFrom(d, k, st, a) ==
    IF k > Len(valid_sections(a)) THEN [val |-> d, st |-> st, raised |-> FALSE]
    ELSE DocLoopNext(ReseedSection(d, valid_sections(a)[k], st, a), k, a)

reseed_document(d, a) == ReseedSectionsFrom(d, 1, InitState(a), a)

(***************************************************************************)
(* Documents.  Every document has the three section keys; a section that   *)
(* is missing has the value Absent.  Sequences of jobs are bounded by      *)
(* MaxJobs.                                                                *)
(***************************************************************************)
Document(running, pending, failed) ==
    [queue_running |-> running, queue_pending |-> pending, queue_failed |-> failed]

RECURSIVE SeqsUpTo(_, _)
SeqsUpTo(S, n) ==
    IF n = 0 THEN {<<>>}
    ELSE LET prev == SeqsUpTo(S, n - 1) IN
         prev \cup {Append(q, x) : q \in prev, x \in S}

JobId == JStr(<<"a", "1">>)
ListJob3(graph) == JList(<<JInt(0), JobId, graph>>)
ListJob(graph, meta) == JList(<<JInt(0), JobId, graph, meta, JList(<<>>)>>)
NotAMapping == JStr(<<"x">>)

(***************************************************************************)
(* Documents handed to process_saved_queue.                                *)
(***************************************************************************)
Sizing81 == Node(SizingType, Inputs(Absent, JInt(81), Absent))
SizingNoInputs == Node(SizingType, Absent)
SizingListInputs == Node(SizingType, JList(<<>>))
SaveClip == Node("SaveVideo", Inputs(Absent, Absent, JStr(Clip)))
SaveClip81f24steps == Node("SaveImage", Inputs(Absent, Absent, JStr(Clip81f24steps)))
SaveClip145f == Node("SaveVideo", Inputs(Absent, Absent, JStr(Clip145f)))
SaveNoPrefix == Node("SaveImage", Inputs(Absent, Absent, Absent))
SaveNoInputs == Node("SaveVideo", Absent)
SaveNullInputs == Node("SaveVideo", Null)
SaveIntPrefix == Node("SaveImage", Inputs(Absent, Absent, JInt(3)))
Sampler10 == Node("KSampler", Inputs(JInt(10), Absent, Absent))

Widgets(length) == JList(<<JInt(512), JInt(320), length, JInt(1)>>)
UISizing81 == UINode(SizingType, Widgets(JInt(81)))
UISizing33 == UINode(SizingType, Widgets(JInt(33)))
UISizingShort == UINode(SizingType, JList(<<JInt(512), JInt(320)>>))
UISizingNoWidgets == UINode(SizingType, Absent)
UISaveClip81f == UINode("SaveVideo", JList(<<JStr(Clip81f)>>))
UISaveClip145f24steps == UINode("SaveImage", JList(<<JStr(Clip145f24steps), JInt(1)>>))
UISaveIntWidget == UINode("SaveImage", JList(<<JInt(5)>>))
UISaveEmpty == UINode("SaveVideo", JList(<<>>))
UIOther == UINode("KSampler", JList(<<JInt(10), JStr(Clip)>>))

MetaOf(uinodes) == Meta(PngInfo(Workflow(JList(uinodes))))

GraphA == NodeMap(<<Sizing81, SaveClip>>)
GraphB == NodeMap(<<SizingNoInputs, SaveClip81f24steps, Sampler10, SaveNoInputs>>)
GraphC == NodeMap(<<SaveClip145f, SaveIntPrefix, SaveNoPrefix>>)
MetaA == MetaOf(<<UISizing81, UISaveClip81f>>)
MetaB == MetaOf(<<UISizingShort, UISaveClip145f24steps, UISizing33, UIOther,
                  UISaveIntWidget, UISizingNoWidgets, UISaveEmpty>>)

RewriteJobs ==
    { ListJob(GraphA, MetaA),
      ListJob(GraphB, MetaB),
      ListJob(GraphC, Meta(Absent)),
      ListJob3(GraphA),
      ListJob(NotAMapping, MetaA),
      ListJob(GraphA, NotAMapping),
      ListJob(GraphA, Meta(PngInfo(Workflow(NotAMapping)))),
      ListJob(GraphA, Meta(PngInfo(Null))),
      GraphA,
      JInt(7),
      JList(<<JInt(0)>>),
      \* the shapes on which the code raises
      ListJob(NodeMap(<<Sizing81, Null, Sizing81>>), MetaA),
      ListJob(NodeMap(<<SizingListInputs>>), MetaA),
      ListJob(NodeMap(<<SaveNullInputs>>), MetaA),
      ListJob(GraphA, MetaOf(<<UISizing81, JInt(0), UISizing33>>)),
      ListJob(GraphA, Meta(Null)) }

RewriteDocs ==
    { Document(running, pending, failed) :
        running \in {JList(js) : js \in SeqsUpTo(RewriteJobs, MaxJobs)}
                      \cup {Absent, NotAMapping},
        pending \in {Absent, NotAMapping, JList(<<ListJob(GraphB, MetaA)>>)},
        failed \in {Absent, JList(<<ListJob(GraphA, MetaB)>>)} }

(***************************************************************************)
(* Documents and arguments handed to reseed_document.                      *)
(***************************************************************************)
SeedOnly(x) == Inputs(x, Absent, Absent)
Sampler0 == Node("KSamplerAdvanced", SeedOnly(JInt(0)))
SamplerStr15 == Node("SamplerCustom", SeedOnly(JStr(<<"1", "5">>)))
SamplerFloat == Node("KSampler (Efficient)", SeedOnly(JFloat(10, 5)))
SamplerBadSeed == Node("KSamplerSDXL", SeedOnly(JStr(<<"a", "b">>)))
SamplerNullSeed == Node("KSamplerTiled", SeedOnly(Null))
SamplerNoSeed == Node("KSampler", Inputs(Absent, JInt(3), Absent))
SamplerNoInputs == Node("KSampler", Absent)
SamplerListInputs == Node("KSampler", JList(<<>>))
SaveWithSeed == Node("SaveImage", Inputs(JInt(7), Absent, JStr(Clip)))
NoClassWithSeed == Node(NoKey, SeedOnly(JInt(15)))

JobTwoSeeds == ListJob3(NodeMap(<<Sampler10, SaveWithSeed, SamplerStr15>>))
JobOtherSeeds == ListJob(NodeMap(<<Sampler0, SamplerFloat>>), MetaA)
BareMappingJob == NodeMap(<<SamplerStr15, NoClassWithSeed, JInt(4), Sampler0>>)

ReseedJobs ==
    { JobTwoSeeds,
      JobOtherSeeds,
      ListJob3(NodeMap(<<SamplerBadSeed, Null, SamplerNoSeed, Sampler10,
                         SamplerNullSeed, SamplerNoInputs, SamplerListInputs>>)),
      BareMappingJob,
      ListJob(NotAMapping, MetaA),
      JInt(7) }

ReseedDocs ==
    { Document(running, pending, failed) :
        running \in {JList(js) : js \in SeqsUpTo(ReseedJobs, MaxJobs)}
                      \cup {Absent, NotAMapping},
        pending \in {Absent, JList(<<JobOtherSeeds, BareMappingJob>>)},
        failed \in {Absent, JList(<<JobTwoSeeds>>)} }

SectionChoices ==
    {<<>>, <<"queue_history", "queue_pending">>, <<"queue_failed", "queue_running">>}
StartSteps == {<<10, 5>>, <<0, -1>>}
Scopes == {"global", "job"}
RandMax == 2147483647
RandVals == {0, RandMax}
MaxRndPeriod == 2

\* Number of seed fields a call meets: the number of draws of the generator.
RECURSIVE FieldsInNodes(_)
FieldsInNodes(nodes) ==
    IF nodes = <<>> THEN 0
    ELSE (IF Head(nodes).t = "dict" /\ find_seed_fields(Head(nodes)) # <<>> THEN 1 ELSE 0)
         + FieldsInNodes(Tail(nodes))

FieldsInItem(item) ==
    IF IsListJob(item) THEN FieldsInNodes(item.elems[3].nodes)
    ELSE IF item.t = "dict" THEN FieldsInNodes(item.nodes)
    ELSE 0

RECURSIVE FieldsInItems(_)
FieldsInItems(items) ==
    IF items = <<>> THEN 0 ELSE FieldsInItem(Head(items)) + FieldsInItems(Tail(items))

FieldsInSection(d, section) ==
    IF DocGet(d, section).t = "list" THEN FieldsInItems(DocGet(d, section).elems) ELSE 0

RECURSIVE FieldsInSections(_, _)
FieldsInSections(d, which) ==
    IF which = <<>> THEN 0
    ELSE FieldsInSection(d, Head(which)) + FieldsInSections(d, Tail(which))

IncrementArgs ==
    { [mode |-> "increment", start |-> ss[1], step |-> ss[2], scope |-> sc,
       rnd |-> <<>>, only_sections |-> os] :
        ss \in StartSteps, sc \in Scopes, os \in SectionChoices }

\* The draws of one generator: n values, repeating with period MaxRndPeriod.
RndStreams(n) ==
    { [k \in 1..n |-> p[((k - 1) % MaxRndPeriod) + 1]] :
        p \in [1..MaxRndPeriod -> RandVals] }

ReseedArgs(d) ==
    IncrementArgs
    \cup
    UNION { { [mode |-> "random", start |-> 0, step |-> 1, scope |-> "global",
               rnd |-> r, only_sections |-> os] :
                r \in RndStreams(FieldsInSections(d, IF os = <<>> THEN DefaultSections
                                                                  ELSE os)) } :
            os \in SectionChoices }
    \cup
    { [mode |-> "bogus", start |-> 0, step |-> 1, scope |-> "global",
       rnd |-> <<>>, only_sections |-> os] : os \in SectionChoices }

(***************************************************************************)
(* The state machine: a caller hands a value to one of the operations, and *)
(* may run the same call again on what a call that returned left behind.   *)
(***************************************************************************)
NoArgs == [frames |-> 0]

InitPrefix ==
    /\ prefix \in PrefixInputs
    /\ prefix0 = prefix
    /\ doc = Absent /\ doc0 = Absent
    /\ status = "idle" /\ calls = 0 /\ args = NoArgs
    /\ nodes_touched = 0 /\ seeds_changed = 0

DoRewritePrefix(frames) ==
    /\ prefix0' = prefix
    /\ prefix' = rewrite_prefix(prefix, frames)
    /\ args' = [frames |-> frames]
    /\ status' = "returned"
    /\ calls' = calls + 1
    /\ UNCHANGED <<doc, doc0, nodes_touched, seeds_changed>>

PrefixCall == calls = 0 /\ \E f \in Frames : DoRewritePrefix(f)

PrefixAgain ==
    calls > 0 /\ calls < MaxCalls /\ status = "returned" /\ DoRewritePrefix(args.frames)

NextPrefix == PrefixCall \/ PrefixAgain

SpecPrefix == InitPrefix /\ [][NextPrefix]_vars

InitRewrite ==
    /\ doc \in RewriteDocs
    /\ doc0 = doc
    /\ prefix = Null /\ prefix0 = Null
    /\ status = "idle" /\ calls = 0 /\ args = NoArgs
    /\ nodes_touched = 0 /\ seeds_changed = 0

\* main(): frames = int(args.frames); process_saved_queue(deepcopy(data), frames)
Rewritten(r, frames) ==
    /\ doc0' = doc
    /\ doc' = r.val
    /\ status' = IF r.raised THEN "raised" ELSE "returned"
    /\ args' = [frames |-> frames]
    /\ calls' = calls + 1
    /\ UNCHANGED <<nodes_touched, seeds_changed, prefix, prefix0>>

DoRewrite(frames) == Rewritten(process_saved_queue(doc, frames), frames)

RewriteFrames == {145, 81}

RewriteCall == calls = 0 /\ \E f \in RewriteFrames : DoRewrite(f)

RewriteAgain ==
    calls > 0 /\ calls < MaxCalls /\ status = "returned" /\ DoRewrite(args.frames)

NextRewrite == RewriteCall \/ RewriteAgain

SpecRewrite == InitRewrite /\ [][NextRewrite]_vars

InitReseed ==
    /\ doc \in ReseedDocs
    /\ doc0 = doc
    /\ prefix = Null /\ prefix0 = Null
    /\ status = "idle" /\ calls = 0 /\ args = NoArgs
    /\ nodes_touched = 0 /\ seeds_changed = 0

Reseeded(r, a) ==
    /\ doc0' = doc
    /\ doc' = r.val
    /\ status' = IF r.raised THEN "raised" ELSE "returned"
    /\ nodes_touched' = r.st.nodes_touched
    /\ seeds_changed' = r.st.seeds_changed
    /\ args' = a
    /\ calls' = calls + 1
    /\ UNCHANGED <<prefix, prefix0>>

DoReseed(a) == Reseeded(reseed_document(doc, a), a)

ReseedCall == calls = 0 /\ \E a \in ReseedArgs(doc) : DoReseed(a)

ReseedAgain ==
    calls > 0 /\ calls < MaxCalls /\ status = "returned" /\ DoReseed(args)

NextReseed == ReseedCall \/ ReseedAgain

SpecReseed == InitReseed /\ [][NextReseed]_vars

(***************************************************************************)
(* Properties of rewrite_prefix (checked under SpecPrefix).                *)
(***************************************************************************)
\* s has, starting at i, the trailing segment of the prefix rule: a dash,
\* digits, the letter f, then nothing or digits and the word steps, and
\* then the end of the string.
TrailingSegmentAt(s, i) ==
    /\ s[i] = "-"
    /\ LET k == DigitsEnd(s, i + 1) IN
       /\ k > i + 1 /\ k <= Len(s) /\ s[k] = "f"
       /\ \/ k = Len(s)
          \/ LET m == DigitsEnd(s, k + 1) IN
             /\ m > k + 1
             /\ m + 4 = Len(s)
             /\ SubSeq(s, m, m + 4) = StepsWord

HasTrailingSegment(s) == \E i \in 1..Len(s) : TrailingSegmentAt(s, i)

\* s with the digits of its trailing segment replaced by frames.
DigitsReplaced(s, frames) ==
    LET i == CHOOSE j \in 1..Len(s) : TrailingSegmentAt(s, j) IN
    SubSeq(s, 1, i) \o IntToStr(frames) \o SubSeq(s, DigitsEnd(s, i + 1), Len(s))

RuleResult(s, frames) ==
    IF HasTrailingSegment(s) THEN DigitsReplaced(s, frames)
    ELSE s \o FrameSegment(frames)

\* C3: the prefix-rewrite rule. For every str s and integer frames, the
\* result of rewrite_prefix is s with only the digits of its trailing
\* '-<digits>f' segment (optionally followed by '<digits>steps') replaced by
\* frames and nothing appended; only when s has no such segment is the
\* result s + '-{frames}f'.
C3_PrefixRule ==
    (calls > 0 /\ prefix0.t = "str")
        => prefix = JStr(RuleResult(prefix0.s, args.frames))

(***************************************************************************)
(* Properties of process_saved_queue (checked under SpecRewrite).          *)
(***************************************************************************)
SectionNames == {"queue_running", "queue_pending", "queue_failed"}

\* The places of the jobs of a document: <<section, index>>.
JobSlots(d) ==
    UNION { {<<key, i>> : i \in 1..(IF d[key].t = "list" THEN Len(d[key].elems) ELSE 0)} :
            key \in SectionNames }

JobAt(d, slot) == d[slot[1]].elems[slot[2]]

HasUIList(meta) ==
    /\ meta.extra_pnginfo.t = "dict"
    /\ meta.extra_pnginfo.workflow.t = "dict"
    /\ meta.extra_pnginfo.workflow.nodes.t = "list"

UIList(meta) == meta.extra_pnginfo.workflow.nodes.elems

\* A list-shaped job with a graph mapping at index 2 and a metadata mapping
\* at index 3 that holds a UI node list.
HasBothViews(job) ==
    /\ job.t = "list" /\ Len(job.elems) >= 4
    /\ job.elems[3].t = "dict"
    /\ job.elems[4].t = "dict" /\ HasUIList(job.elems[4])

CanonicalSizing(n) == n.t = "dict" /\ n.class_type = SizingType

UISizing(u) ==
    /\ u.t = "dict" /\ u.type = SizingType
    /\ u.widgets_values.t = "list" /\ Len(u.widgets_values.elems) >= 3

CanonicalLengthIs(nodes, frames) ==
    \A i \in 1..Len(nodes) :
        CanonicalSizing(nodes[i]) =>
            (nodes[i].inputs.t = "dict" /\ nodes[i].inputs.length = JInt(frames))

UILengthIs(uinodes, frames) ==
    \A i \in 1..Len(uinodes) :
        UISizing(uinodes[i]) => uinodes[i].widgets_values.elems[3] = JInt(frames)

\* C1: rewrite is idempotent. A second process_saved_queue with the same
\* frames, applied to the document the first one returned, returns a
\* document equal to it (every filename prefix included).
C1_RewriteIdempotent ==
    (calls >= 2 /\ status = "returned") => doc = doc0

\* C4: dual-representation consistency. After rewrite(d, frames) has
\* returned, in every list-shaped job with a graph mapping at index 2 and a
\* metadata mapping at index 3 holding a UI node list, every canonical sizing
\* node has inputs.length = frames and every UI sizing node with at least 3
\* widgets has widgets_values[2] = frames.
C4_DualRepresentation ==
    status = "returned" =>
        \A slot \in JobSlots(doc) :
            HasBothViews(JobAt(doc, slot)) =>
                /\ CanonicalLengthIs(JobAt(doc, slot).elems[3].nodes, args.frames)
                /\ UILengthIs(UIList(JobAt(doc, slot).elems[4]), args.frames)

\* A first call has returned on a job whose canonical sizing node and UI
\* sizing node both held another length than frames (or none) before.
C4_Witness ==
    /\ status = "returned" /\ calls = 1
    /\ \E slot \in JobSlots(doc0) :
         LET job0 == JobAt(doc0, slot) IN
         /\ HasBothViews(job0)
         /\ ~CanonicalLengthIs(job0.elems[3].nodes, args.frames)
         /\ ~UILengthIs(UIList(job0.elems[4]), args.frames)
         /\ JobAt(doc, slot) # job0

\* The malformations C7 lists are the only ones of the document: every
\* inputs value of a node is a mapping or missing, and every extra_pnginfo
\* of a metadata mapping is a mapping or missing.
WellFormedInside(job) ==
    job.t = "list" =>
        /\ (Len(job.elems) >= 3 /\ job.elems[3].t = "dict") =>
               \A i \in 1..Len(job.elems[3].nodes) :
                   job.elems[3].nodes[i].t = "dict" =>
                       job.elems[3].nodes[i].inputs.t \in {"dict", "absent"}
        /\ (Len(job.elems) >= 4 /\ job.elems[4].t = "dict") =>
               job.elems[4].extra_pnginfo.t \in {"dict", "absent"}

OnlyListedMalformations(d) ==
    \A slot \in JobSlots(d) : WellFormedInside(JobAt(d, slot))

\* C7: malformed data never makes rewrite fail. On a document whose only
\* malformations are a section that is missing or no list, a job that is
\* neither a list nor a mapping, a Node-Map value that is no mapping, or a
\* UI node list entry that is no mapping, the call completes without raising.
C7_MalformedTolerated ==
    (calls > 0 /\ OnlyListedMalformations(doc0)) => status # "raised"

EligibleNode(n) ==
    /\ n.t = "dict"
    /\ n.class_type \in KSAMPLER_CLASSES
    /\ n.inputs.t = "dict"
    /\ n.inputs.seed # Absent
    /\ IntOf(n.inputs.seed).ok

\* The Node-Map of a job of either shape; no nodes for any other shape.
TraversedNodes(item) ==
    IF IsListJob(item) THEN item.elems[3].nodes
    ELSE IF item.t = "dict" THEN item.nodes
    ELSE <<>>

TraversedSections(a) ==
    IF a.only_sections = <<>> THEN <<"queue_running", "queue_pending">>
    ELSE a.only_sections

\* The places <<section, job, node>> of the eligible seed fields, in
\* traversal order.
RECURSIVE NodePlaces(_, _, _, _)
NodePlaces(nodes, sec, j, i) ==
    IF i > Len(nodes) THEN <<>>
    ELSE (IF EligibleNode(nodes[i]) THEN <<<<sec, j, i>>>> ELSE <<>>)
         \o NodePlaces(nodes, sec, j, i + 1)

RECURSIVE ItemPlaces(_, _, _)
ItemPlaces(items, sec, j) ==
    IF j > Len(items) THEN <<>>
    ELSE NodePlaces(TraversedNodes(items[j]), sec, j, 1) \o ItemPlaces(items, sec, j + 1)

RECURSIVE SectionPlaces(_, _, _)
SectionPlaces(d, which, k) ==
    IF k > Len(which) THEN <<>>
    ELSE (IF DocGet(d, which[k]).t = "list"
          THEN ItemPlaces(d[which[k]].elems, which[k], 1) ELSE <<>>)
         \o SectionPlaces(d, which, k + 1)

SeedPlaces(d, a) == SectionPlaces(d, TraversedSections(a), 1)

NodeAt(d, place) == TraversedNodes(d[place[1]].elems[place[2]])[place[3]]
SeedAt(d, place) == NodeAt(d, place).inputs.seed
SeedsInOrder(d, a) ==
    LET P == SeedPlaces(d, a) IN [k \in 1..Len(P) |-> SeedAt(d, P[k])]

\* How many eligible fields the scope has met before the k-th place (k
\* from 1): all of them under global, those of the same job under job.
RankInScope(P, k, scope) ==
    IF scope = "job"
    THEN Cardinality({m \in 1..(k - 1) : P[m][1] = P[k][1] /\ P[m][2] = P[k][2]})
    ELSE k - 1

\* The value the call computes for the k-th place.
NewValue(P, k, a) ==
    IF a.mode = "random" THEN a.rnd[k]
    ELSE a.start + RankInScope(P, k, a.scope) * a.step

\* C2: an unknown mode fails fast. A call with a mode that is neither
\* random nor increment raises and leaves the document unchanged, for every
\* document.
C2_UnknownModeFails ==
    (calls > 0 /\ args.mode \notin {"random", "increment"})
        => (status = "raised" /\ doc = doc0)

\* C5: the increment sequence. After a call in mode increment has returned,
\* the k-th eligible seed field in traversal order (k from 0) has the
\* integer value start + k*step, k counting the eligible fields met so far
\* in the whole call under scope global and in the current job under scope
\* job, whether or not they were overwritten.
C5_IncrementSequence ==
    (status = "returned" /\ args.mode = "increment") =>
        LET P == SeedPlaces(doc0, args) IN
        \A k \in 1..Len(P) :
            /\ IntOf(SeedAt(doc, P[k])).ok
            /\ IntOf(SeedAt(doc, P[k])).val =
                   args.start + RankInScope(P, k, args.scope) * args.step

\* A first call under scope job has returned on two consecutive jobs of one
\* section, two eligible fields each, some overwritten and some left alone.
C5_Witness ==
    /\ status = "returned" /\ calls = 1
    /\ args.mode = "increment" /\ args.scope = "job" /\ args.step # 0
    /\ LET P == SeedPlaces(doc0, args) IN
       /\ Len(P) >= 4
       /\ P[1][1] = P[4][1] /\ P[1][2] = P[2][2] /\ P[3][2] = P[4][2] /\ P[2][2] # P[3][2]
    /\ seeds_changed > 0 /\ seeds_changed < nodes_touched

\* C6: counter accounting. When a call returns, nodes_touched is the number
\* of nodes of the traversed jobs that have an eligible seed field, and
\* seeds_changed the number of those fields that were overwritten; a field
\* is overwritten (with the new value) exactly when the new value differs
\* from its current integer value, and is otherwise left as it was.
C6_CounterAccounting ==
    status = "returned" =>
        LET P == SeedPlaces(doc0, args) IN
        /\ nodes_touched = Len(P)
        /\ seeds_changed =
               Cardinality({k \in 1..Len(P) : SeedAt(doc, P[k]) # SeedAt(doc0, P[k])})
        /\ seeds_changed <= nodes_touched
        /\ \A k \in 1..Len(P) :
               IF NewValue(P, k, args) # IntOf(SeedAt(doc0, P[k])).val
               THEN SeedAt(doc, P[k]) = JInt(NewValue(P, k, args))
               ELSE SeedAt(doc, P[k]) = SeedAt(doc0, P[k])

\* A call has returned having overwritten some fields and left alone a seed
\* that is a str holding the very number computed for it.
C6_Witness ==
    /\ status = "returned" /\ calls = 1
    /\ 0 < seeds_changed /\ seeds_changed < nodes_touched
    /\ LET P == SeedPlaces(doc0, args) IN
       \E k \in 1..Len(P) : SeedAt(doc, P[k]).t = "str"

\* The document without the nodes whose class_type is no sampler type.
PruneNodes(nodes) ==
    SelectSeq(nodes, LAMBDA n : ~(n.t = "dict" /\ n.class_type \notin KSAMPLER_CLASSES))

PruneItem(item) ==
    IF IsListJob(item) THEN [item EXCEPT !.elems[3].nodes = PruneNodes(@)]
    ELSE IF item.t = "dict" THEN [item EXCEPT !.nodes = PruneNodes(@)]
    ELSE item

PruneDoc(d) ==
    [key \in DOMAIN d |->
        IF d[key].t = "list"
        THEN [d[key] EXCEPT !.elems = [j \in 1..Len(@) |-> PruneItem(@[j])]]
        ELSE d[key]]

\* C8: non-eligible nodes are untouched. A node whose class_type is not in
\* the sampler-type set is the same after the call as before; and when the
\* call returns, nodes_touched and the seeds of the eligible nodes, in
\* traversal order, are those of the same call on the document with the
\* non-sampler nodes removed.
C8_NonEligibleUntouched ==
    calls > 0 =>
        /\ \A slot \in JobSlots(doc0) :
               \A i \in 1..Len(TraversedNodes(JobAt(doc0, slot))) :
                   LET n0 == TraversedNodes(JobAt(doc0, slot))[i] IN
                   (n0.t = "dict" /\ n0.class_type \notin KSAMPLER_CLASSES)
                       => TraversedNodes(JobAt(doc, slot))[i] = n0
        /\ status = "returned" =>
               LET pruned == reseed_document(PruneDoc(doc0), args) IN
               /\ ~pruned.raised
               /\ nodes_touched = pruned.st.nodes_touched
               /\ SeedsInOrder(doc, args) = SeedsInOrder(pruned.val, args)

\* A call has returned that met, in a traversed job, a node that is no
\* sampler and has a seed key, followed by an eligible node it overwrote.
C8_Witness ==
    /\ status = "returned" /\ calls = 1
    /\ LET P == SeedPlaces(doc0, args) IN
       \E k \in 1..Len(P) :
         LET pl == P[k]
             nodes == TraversedNodes(JobAt(doc0, <<pl[1], pl[2]>>))
         IN /\ SeedAt(doc, pl) # SeedAt(doc0, pl)
            /\ \E i \in 1..(pl[3] - 1) :
                   /\ nodes[i].t = "dict"
                   /\ nodes[i].class_type \notin KSAMPLER_CLASSES
                   /\ nodes[i].inputs.t = "dict"
                   /\ nodes[i].inputs.seed # Absent

\* C10 as stated: reseed in mode increment is not idempotent. There is a
\* document and there are parameters for which a second call with the same
\* parameters, on the document the first call produced, changes a seed.
C10_NotIdempotent ==
    \E d \in ReseedDocs \cup {doc} : \E a \in IncrementArgs :
        reseed_document(reseed_document(d, a).val, a).val # reseed_document(d, a).val

\* C10 amended: reseed in mode increment is idempotent. A second call with
\* the same parameters, on the document the first call produced, leaves
\* every seed as it is and reports seeds_changed = 0.
C10_IncrementIdempotent ==
    (calls >= 2 /\ status = "returned" /\ args.mode = "increment")
        => (doc = doc0 /\ seeds_changed = 0)

\* A second call in mode increment has returned, on a document whose third
\* eligible field holds the value start + 2*step = 20 of the first call.
C10_Witness ==
    /\ calls = 2 /\ status = "returned"
    /\ args.mode = "increment" /\ args.start = 10 /\ args.step = 5
    /\ nodes_touched >= 3
    /\ SeedAt(doc, SeedPlaces(doc, args)[3]) = JInt(20)

====
